---------------------------- MODULE Spec2Model ----------------------------
(***************************************************************************)
(* A model of the KappaBySizes sample-data generators:                     *)
(*   utils/common.py             create_galaxy_sample,                     *)
(*                               generate_simple_kappa_map                 *)
(*   data/generate_sample_data.py  generate_large_galaxy_catalogue,        *)
(*                               generate_kappa_maps,                      *)
(*                               generate_redshift_catalogues, main        *)
(*                                                                         *)
(* Real numbers are fixed-point integers in thousandths: a redshift of 0.1 *)
(* is 100, a magnitude of -20 is -20000, an angle of 5 degrees is 5000.    *)
(*                                                                         *)
(* numpy's process-wide generator (np.random.seed / np.random.<draw>) is   *)
(* one integer state `rng`.  A draw reads the state and advances it; the   *)
(* value drawn is the distribution's sample at that state, taken from a    *)
(* table of points of the distribution's support that includes both tails. *)
(***************************************************************************)
EXTENDS Integers, Sequences, FiniteSets, TLC

VARIABLES
    rng,        \* state of the process-wide generator (sequential client)
    last,       \* the most recent sampler call: its operation, arguments, outcome
    ref,        \* an earlier create_galaxy_sample call kept for comparison
    crng,       \* state of the process-wide generator (interleaved client)
    th,         \* per thread: the invocation, its position and its locals
    disturbed,  \* per thread: another thread used the generator during its call
    pc,         \* driver: position in the entry point being run
    entry,      \* driver: which function was called, with which grid
    drng,       \* driver: state of the process-wide generator
    files,      \* driver: file name -> content written under the data directory
    writes,     \* driver: sequence of file names in the order written
    steps,      \* driver: the steps of main that were started, in order
    exc,        \* driver: the exception in flight or handled ("none" if none)
    status,     \* driver: value returned by main ("none" before it returns)
    loopIdx,    \* driver: index of the next (nside, z_source) pair of the grid
    heap,       \* driver: the dictionaries of generate_redshift_catalogues
    printed     \* driver: whether the error message was printed

vars == <<rng, last, ref, crng, th, disturbed, pc, entry, drng, files, writes,
          steps, exc, status, loopIdx, heap, printed>>

seqVars == <<rng, last, ref>>
concVars == <<crng, th, disturbed>>
drvVars == <<pc, entry, drng, files, writes, steps, exc, status, loopIdx, heap,
             printed>>

-----------------------------------------------------------------------------
(* Bounds of the model *)

\* largest n_galaxies a client of the samplers passes
MaxGalaxies == 2

\* n_galaxies of the driver's catalogues (50000 and 10000 in the source),
\* scaled to one period of the model's generator
DriverGalaxies == 16

-----------------------------------------------------------------------------
(* The process-wide pseudo-random generator *)

\* standard normal samples, thousandths; both tails present
StdNormal ==
    <<-4000, -3000, -2000, -1500, -1000, -600, -300, -100,
      100, 300, 600, 1000, 1500, 2000, 3000, 4000>>

\* standard exponential samples, thousandths; 0 is -log(1 - 0)
StdExponential ==
    <<0, 50, 100, 250, 400, 600, 800, 1000,
      1300, 1700, 2200, 3000, 4000, 5000, 6400, 8000>>

\* standard gamma samples of shape 2, thousandths
StdGamma2 ==
    <<10, 100, 300, 500, 800, 1100, 1400, 1700,
      2000, 2500, 3000, 4000, 5500, 7000, 9000, 12000>>

\* exp(0.5 * StdNormal[i]), thousandths
ExpHalfStdNormal ==
    <<135, 223, 368, 472, 607, 741, 861, 951,
      1051, 1162, 1350, 1649, 2117, 2718, 4482, 7389>>

RngMod == Len(StdNormal)

RngStates == 0 .. (RngMod - 1)

\* np.random.seed(seed): the state becomes a function of the seed alone
ReseedKeepsState(state, seed) == (state + seed) % RngMod

Reseed(state, seed) == seed % RngMod

\* one draw advances the state (a full-period congruential step)
Advance(s) == (5 * s + 3) % RngMod

RECURSIVE NthState(_, _)
NthState(s, k) == IF k = 0 THEN s ELSE NthState(Advance(s), k - 1)

\* the state after a vectorised draw of n values; the period is RngMod
AdvanceN(s, n) == NthState(s, n % RngMod)

\* a vectorised draw: n consecutive samples of F starting at state s
DrawSeq(F(_), s, n) == [i \in 1 .. n |-> F(NthState(s, (i - 1) % RngMod))]

Uniform01(u) == (u * 1000) \div RngMod

UniformDraw(lo, hi, u) == lo + ((hi - lo) * Uniform01(u)) \div 1000

ExponentialDraw(scale, u) == (scale * StdExponential[u + 1]) \div 1000

GammaDraw(scale, u) == (scale * StdGamma2[u + 1]) \div 1000

NormalDraw(loc, scale, u) == loc + (scale * StdNormal[u + 1]) \div 1000

LognormalDraw(u) == ExpHalfStdNormal[u + 1]

ChoiceDraw(u) == IF Uniform01(u) < 300 THEN 0 ELSE 1

Abs(x) == IF x < 0 THEN -x ELSE x

ClipIdentity(x, lo, hi) == x

Clip(x, lo, hi) == IF x < lo THEN lo ELSE IF x > hi THEN hi ELSE x

\* np.sqrt of an area in whole square degrees (a perfect square), thousandths
Sqrt(a) == 1000 * (CHOOSE r \in 0 .. a : r * r = a)

-----------------------------------------------------------------------------
(* Cosmology: 5 * log10(luminosity_distance / pc) - 5 for Planck18 *)

\* distance modulus at z = 0.001, 0.1, 0.2, ..., 4.1, thousandths of a magnitude
DistanceModulusKnots ==
    <<28234, 38387, 40027, 41025, 41752, 42328, 42804, 43211, 43566, 43880,
      44162, 44417, 44650, 44864, 45062, 45247, 45419, 45581, 45733, 45877,
      46013, 46142, 46265, 46382, 46495, 46602, 46705, 46804, 46899, 46991,
      47079, 47164, 47247, 47327, 47404, 47479, 47552, 47623, 47692, 47759,
      47824, 47887>>

\* linear interpolation between the knots
DistanceModulus(z) ==
    LET k  == z \div 100
        lo == DistanceModulusKnots[k + 1]
        hi == DistanceModulusKnots[k + 2]
    IN  lo + ((hi - lo) * (z % 100)) \div 100

-----------------------------------------------------------------------------
(* utils/common.py: create_galaxy_sample *)

Z_MIN == 100
Z_MAX == 3000

RedshiftKinds == {"exp", "gamma", "uniform"}
SizeKinds == {"lognormal", "normal", "exponential"}

RedshiftKnownAny(d) == TRUE

RedshiftKnown(d) == d \in RedshiftKinds

SizeKnown(d) == d \in SizeKinds

DrawRa(a, s) == DrawSeq(LAMBDA u : UniformDraw(0, Sqrt(a.area_deg2), u), s, a.n)

DrawDec(a, s) ==
    LET side == Sqrt(a.area_deg2)
    IN  DrawSeq(LAMBDA u : UniformDraw(-(side \div 2), side \div 2, u), s, a.n)

\* the raw redshift draw of the selected family (the final branch is 'uniform')
DrawRedshift(a, s) ==
    IF a.redshift_dist = "exp"
    THEN DrawSeq(LAMBDA u : ExponentialDraw(500, u), s, a.n)
    ELSE IF a.redshift_dist = "gamma"
    THEN DrawSeq(LAMBDA u : GammaDraw(300, u), s, a.n)
    ELSE DrawSeq(LAMBDA u : UniformDraw(100, 3000, u), s, a.n)

ClipRedshift(z) == [i \in DOMAIN z |-> Clip(z[i], Z_MIN, Z_MAX)]

SizeNormal(u) == Abs(NormalDraw(1000, 300, u))

\* the size draw of the selected family (the final branch is 'exponential')
DrawSizes(a, s) ==
    IF a.size_dist = "lognormal"
    THEN DrawSeq(LAMBDA u : LognormalDraw(u), s, a.n)
    ELSE IF a.size_dist = "normal"
    THEN DrawSeq(LAMBDA u : SizeNormal(u), s, a.n)
    ELSE DrawSeq(LAMBDA u : ExponentialDraw(1000, u), s, a.n)

DrawGalaxyType(a, s) == DrawSeq(LAMBDA u : ChoiceDraw(u), s, a.n)

DrawAbsoluteMag(a, s) == DrawSeq(LAMBDA u : NormalDraw(-20000, 1500, u), s, a.n)

DistanceModulusOfRaw(z, zraw) == [i \in DOMAIN z |-> DistanceModulus(zraw[i])]

\* distance_modulus of the clipped redshifts z (zraw is the draw before np.clip)
DistanceModulusOf(z, zraw) == [i \in DOMAIN z |-> DistanceModulus(z[i])]

ApparentMag(absolute_mag, distance_modulus) ==
    [i \in DOMAIN absolute_mag |-> absolute_mag[i] + distance_modulus[i]]

ValueError(msg, d) == [kind |-> "ValueError", message |-> msg, value |-> d]

\* the whole call from generator state s: the state it leaves and its outcome
CreateGalaxySample(a, s) ==
    LET r0   == Reseed(s, a.seed)
        ra   == DrawRa(a, r0)
        r1   == AdvanceN(r0, a.n)
        dec  == DrawDec(a, r1)
        r2   == AdvanceN(r1, a.n)
        zraw == DrawRedshift(a, r2)
        r3   == AdvanceN(r2, a.n)
        z    == ClipRedshift(zraw)
        size == DrawSizes(a, r3)
        r4   == AdvanceN(r3, a.n)
        type == DrawGalaxyType(a, r4)
        r5   == AdvanceN(r4, a.n)
        dm   == DistanceModulusOf(z, zraw)
        abs  == DrawAbsoluteMag(a, r5)
        r6   == AdvanceN(r5, a.n)
    IN  IF ~RedshiftKnown(a.redshift_dist)
        THEN [rng |-> r2,
              outcome |-> ValueError("Unknown redshift distribution",
                                     a.redshift_dist)]
        ELSE IF ~SizeKnown(a.size_dist)
        THEN [rng |-> r3,
              outcome |-> ValueError("Unknown size distribution", a.size_dist)]
        ELSE [rng |-> r6,
              outcome |->
                [kind |-> "ok",
                 catalogue |->
                   [ra |-> ra, dec |-> dec, redshift |-> z, size |-> size,
                    galaxy_type |-> type,
                    apparent_mag |-> ApparentMag(abs, dm),
                    absolute_mag |-> abs]]]

-----------------------------------------------------------------------------
(* utils/common.py: generate_simple_kappa_map *)

Nside2NpixLinear(nside) == 12 * nside

\* hp.nside2npix
Nside2Npix(nside) == 12 * nside * nside

RECURSIVE IsPowerOfTwo(_)
IsPowerOfTwo(n) ==
    IF n < 1 THEN FALSE
    ELSE IF n = 1 THEN TRUE
    ELSE n % 2 = 0 /\ IsPowerOfTwo(n \div 2)

\* A map is kept as the generator state its first pixel was drawn at, its
\* length and its sigma: pixel i is the normal sample at the i-th state.
KappaDraw(sigma, npix, s) == [npix |-> npix, sigma |-> sigma, first |-> s,
                              smoothed |-> FALSE]

Pixel(m, i) == NormalDraw(0, m.sigma, NthState(m.first, (i - 1) % RngMod))

\* hp.smoothing returns a map on the same pixelization
Smoothing(m) == [m EXCEPT !.smoothed = TRUE]

\* The whole call from generator state s.  The function checks nothing
\* itself; `rejects` says whether the installed pixelization library refuses
\* an nside that is not a power of two when asked for its pixel count.
GenerateSimpleKappaMap(a, rejects, s) ==
    LET r0    == Reseed(s, a.seed)
        npix  == Nside2Npix(a.nside)
        sigma == (10 * a.z_source) \div 1000
        kappa == KappaDraw(sigma, npix, r0)
        r1    == AdvanceN(r0, npix)
    IN  IF rejects /\ ~IsPowerOfTwo(a.nside)
        THEN [rng |-> r0,
              outcome |-> ValueError("not a valid nside parameter", a.nside)]
        ELSE [rng |-> r1,
              outcome |-> [kind |-> "ok", map |-> Smoothing(kappa)]]

-----------------------------------------------------------------------------
(* A sequential client of the two samplers *)

SeedChoices == {42, 123}
AreaChoices == {1, 25}
NsideChoices == {2, 7, 128, 256, 512}
ZSourceArgs == {500, 2000}

GalaxyArgs ==
    [n : 1 .. MaxGalaxies,
     redshift_dist : RedshiftKinds \cup {"bogus"},
     size_dist : SizeKinds \cup {"bogus"},
     area_deg2 : AreaChoices,
     seed : SeedChoices]

KappaArgs == [nside : NsideChoices, z_source : ZSourceArgs, seed : SeedChoices]

\* the arguments of the client that repeats calls
RepeatGalaxyArgs ==
    [n : {MaxGalaxies}, redshift_dist : RedshiftKinds, size_dist : SizeKinds,
     area_deg2 : {25}, seed : SeedChoices]

RepeatKappaArgs == [nside : {2, 128}, z_source : {500}, seed : SeedChoices]

NoCall == [op |-> "none"]

\* a sampler call was made after the call kept in ref
Later(r) ==
    IF r = NoCall THEN r
    ELSE [r EXCEPT !.after = IF r.after < 2 THEN r.after + 1 ELSE 2]

\* the state after import: the generator is in a state the client does not
\* know, no call was made; the other clients' variables are parked
Init ==
    /\ rng \in RngStates
    /\ last = NoCall
    /\ ref = NoCall
    /\ crng = 0
    /\ th = <<>>
    /\ disturbed = <<>>
    /\ pc = "idle"
    /\ entry = "none"
    /\ drng = 0
    /\ files = <<>>
    /\ writes = <<>>
    /\ steps = <<>>
    /\ exc = [kind |-> "none"]
    /\ status = "none"
    /\ loopIdx = 0
    /\ heap = <<>>
    /\ printed = FALSE

\* one call of create_galaxy_sample
CallCreateGalaxySample(a) ==
    LET res == CreateGalaxySample(a, rng)
    IN  /\ rng' = res.rng
        /\ last' = [op |-> "create_galaxy_sample", args |-> a,
                    outcome |-> res.outcome]
        /\ ref' = Later(ref)
        /\ UNCHANGED <<concVars, drvVars>>

\* one call of generate_simple_kappa_map
CallGenerateSimpleKappaMap(a, rejects) ==
    LET res == GenerateSimpleKappaMap(a, rejects, rng)
    IN  /\ rng' = res.rng
        /\ last' = [op |-> "generate_simple_kappa_map", args |-> a,
                    rejects |-> rejects, outcome |-> res.outcome]
        /\ ref' = Later(ref)
        /\ UNCHANGED <<concVars, drvVars>>

\* an unseeded draw from the process-wide generator by other code
UnseededDraw ==
    /\ rng' = Advance(rng)
    /\ UNCHANGED <<last, ref, concVars, drvVars>>

\* the client keeps the catalogue it was just returned
KeepForComparison ==
    /\ ref = NoCall
    /\ last # NoCall
    /\ last.op = "create_galaxy_sample"
    /\ ref' = [args |-> last.args, outcome |-> last.outcome, after |-> 0]
    /\ UNCHANGED <<rng, last, concVars, drvVars>>

GalaxyCall == \E a \in GalaxyArgs : CallCreateGalaxySample(a)

KappaCall ==
    \E a \in KappaArgs, rejects \in BOOLEAN :
        CallGenerateSimpleKappaMap(a, rejects)

RepeatGalaxyCall == \E a \in RepeatGalaxyArgs : CallCreateGalaxySample(a)

RepeatKappaCall ==
    \E a \in RepeatKappaArgs : CallGenerateSimpleKappaMap(a, FALSE)

Next == GalaxyCall \/ KappaCall \/ UnseededDraw

Spec == Init /\ [][Next]_vars

RepeatNext ==
    RepeatGalaxyCall \/ RepeatKappaCall \/ UnseededDraw \/ KeepForComparison

SpecRepeat == Init /\ [][RepeatNext]_vars

-----------------------------------------------------------------------------
(* Properties of the samplers *)

LastIsGalaxy == last # NoCall /\ last.op = "create_galaxy_sample"

LastIsKappa == last # NoCall /\ last.op = "generate_simple_kappa_map"

LastCatalogue == last.outcome.catalogue

\* the redshift draw of the last call before np.clip
LastRawRedshift ==
    LET a == last.args
    IN  DrawRedshift(a, AdvanceN(AdvanceN(Reseed(0, a.seed), a.n), a.n))

\* C1: a call of create_galaxy_sample with the arguments of an earlier call
\* returns the catalogue the earlier call returned, field by field, whatever
\* sampler calls and unseeded draws were made in between.
C1_RepeatIsIdentical ==
    (ref # NoCall /\ LastIsGalaxy /\ last.args = ref.args)
        => last.outcome = ref.outcome

C1_Witness ==
    /\ ref # NoCall /\ LastIsGalaxy
    /\ ref.after = 2
    /\ last.args = ref.args
    /\ last.outcome.kind = "ok"
    /\ rng # CreateGalaxySample(ref.args, 0).rng

C5_InvalidResolution ==
    LastIsKappa =>
        /\ (last.outcome.kind = "ValueError") <=> ~IsPowerOfTwo(last.args.nside)
        /\ ~IsPowerOfTwo(last.args.nside) => "map" \notin DOMAIN last.outcome

\* C6: the returned map has 12 * nside^2 pixels, whatever z_source and seed
\* are, and it is the smoothed map.
C6_PixelCount ==
    (LastIsKappa /\ last.outcome.kind = "ok")
        => /\ last.outcome.map.npix = 12 * last.args.nside * last.args.nside
           /\ last.outcome.map.smoothed

C6_Witness ==
    /\ LastIsKappa /\ last.outcome.kind = "ok"
    /\ last.args.nside = 512
    /\ last.outcome.map.npix = 3145728

-----------------------------------------------------------------------------
(* Two invocations of the samplers, with different seeds, whose np.random   *)
(* calls interleave.  np.random.seed and each vectorised draw is one atomic *)
(* step on the process-wide generator.                                      *)

Threads == {1, 2}

ThreadSeed(t) == IF t = 1 THEN 42 ELSE 123

ThreadInvocations(t) ==
    [op : {"create_galaxy_sample"},
     args : [n : 1 .. MaxGalaxies, redshift_dist : {"exp", "bogus"},
             size_dist : {"normal", "bogus"}, area_deg2 : {25},
             seed : {ThreadSeed(t)}]]
    \cup
    [op : {"generate_simple_kappa_map"},
     args : [nside : {2}, z_source : {500}, seed : {ThreadSeed(t)}]]

NoLocals ==
    [ra |-> <<>>, dec |-> <<>>, zraw |-> <<>>, z |-> <<>>, size |-> <<>>,
     type |-> <<>>]

Finished(p) == p \in {"returned", "raised"}

\* thread t used the generator: every other thread that has seeded and has
\* draws left has lost the state it was relying on
Disturb(t) ==
    [u \in Threads |->
        IF u # t /\ th[u].pc # "seed" /\ ~Finished(th[u].pc)
        THEN TRUE ELSE disturbed[u]]

ThreadStart(inv) ==
    [op |-> inv.op, args |-> inv.args, pc |-> "seed", loc |-> NoLocals,
     result |-> NoCall]

ThreadsInit ==
    /\ crng \in RngStates
    /\ \E i1 \in ThreadInvocations(1), i2 \in ThreadInvocations(2) :
          th = (1 :> ThreadStart(i1)) @@ (2 :> ThreadStart(i2))
    /\ disturbed = [t \in Threads |-> FALSE]
    /\ rng = 0
    /\ last = NoCall
    /\ ref = NoCall
    /\ pc = "idle"
    /\ entry = "none"
    /\ drng = 0
    /\ files = <<>>
    /\ writes = <<>>
    /\ steps = <<>>
    /\ exc = [kind |-> "none"]
    /\ status = "none"
    /\ loopIdx = 0
    /\ heap = <<>>
    /\ printed = FALSE

\* thread t moves to position p with locals l, the generator moves to s
ThreadStep(t, p, l, s) ==
    /\ th' = [th EXCEPT ![t].pc = p, ![t].loc = l]
    /\ crng' = s
    /\ disturbed' = Disturb(t)
    /\ UNCHANGED <<seqVars, drvVars>>

\* thread t ends with result r without touching the generator
ThreadEnd(t, p, r) ==
    /\ th' = [th EXCEPT ![t].pc = p, ![t].result = r]
    /\ UNCHANGED <<crng, disturbed, seqVars, drvVars>>

\* np.random.seed(seed), first statement of both samplers
T_Seed(t) ==
    /\ th[t].pc = "seed"
    /\ ThreadStep(t,
                  IF th[t].op = "create_galaxy_sample" THEN "ra" ELSE "normal",
                  th[t].loc, Reseed(crng, th[t].args.seed))

T_Ra(t) ==
    /\ th[t].pc = "ra"
    /\ ThreadStep(t, "dec", [th[t].loc EXCEPT !.ra = DrawRa(th[t].args, crng)],
                  AdvanceN(crng, th[t].args.n))

T_Dec(t) ==
    /\ th[t].pc = "dec"
    /\ ThreadStep(t, "redshift",
                  [th[t].loc EXCEPT !.dec = DrawDec(th[t].args, crng)],
                  AdvanceN(crng, th[t].args.n))

T_Redshift(t) ==
    /\ th[t].pc = "redshift"
    /\ IF ~RedshiftKnown(th[t].args.redshift_dist)
       THEN ThreadEnd(t, "raised",
                      ValueError("Unknown redshift distribution",
                                 th[t].args.redshift_dist))
       ELSE LET zraw == DrawRedshift(th[t].args, crng)
            IN  ThreadStep(t, "size",
                           [th[t].loc EXCEPT !.zraw = zraw,
                                             !.z = ClipRedshift(zraw)],
                           AdvanceN(crng, th[t].args.n))

T_Sizes(t) ==
    /\ th[t].pc = "size"
    /\ IF ~SizeKnown(th[t].args.size_dist)
       THEN ThreadEnd(t, "raised",
                      ValueError("Unknown size distribution",
                                 th[t].args.size_dist))
       ELSE ThreadStep(t, "type",
                       [th[t].loc EXCEPT !.size = DrawSizes(th[t].args, crng)],
                       AdvanceN(crng, th[t].args.n))

T_GalaxyType(t) ==
    /\ th[t].pc = "type"
    /\ ThreadStep(t, "mag",
                  [th[t].loc EXCEPT !.type = DrawGalaxyType(th[t].args, crng)],
                  AdvanceN(crng, th[t].args.n))

\* distance modulus, the absolute_mag draw, apparent_mag and the return
T_Magnitudes(t) ==
    /\ th[t].pc = "mag"
    /\ LET l   == th[t].loc
           dm  == DistanceModulusOf(l.z, l.zraw)
           abs == DrawAbsoluteMag(th[t].args, crng)
       IN  /\ th' = [th EXCEPT
                       ![t].pc = "returned",
                       ![t].result =
                          [kind |-> "ok",
                           catalogue |->
                             [ra |-> l.ra, dec |-> l.dec, redshift |-> l.z,
                              size |-> l.size, galaxy_type |-> l.type,
                              apparent_mag |-> ApparentMag(abs, dm),
                              absolute_mag |-> abs]]]
           /\ crng' = AdvanceN(crng, th[t].args.n)
           /\ disturbed' = Disturb(t)
           /\ UNCHANGED <<seqVars, drvVars>>

\* the pixel draw, the smoothing and the return of generate_simple_kappa_map
T_KappaDraw(t) ==
    /\ th[t].pc = "normal"
    /\ LET npix  == Nside2Npix(th[t].args.nside)
           sigma == (10 * th[t].args.z_source) \div 1000
       IN  /\ th' = [th EXCEPT
                       ![t].pc = "returned",
                       ![t].result =
                          [kind |-> "ok",
                           map |-> Smoothing(KappaDraw(sigma, npix, crng))]]
           /\ crng' = AdvanceN(crng, npix)
           /\ disturbed' = Disturb(t)
           /\ UNCHANGED <<seqVars, drvVars>>

ThreadNext ==
    \E t \in Threads :
        \/ T_Seed(t)
        \/ T_Ra(t)
        \/ T_Dec(t)
        \/ T_Redshift(t)
        \/ T_Sizes(t)
        \/ T_GalaxyType(t)
        \/ T_Magnitudes(t)
        \/ T_KappaDraw(t)

SpecThreads == ThreadsInit /\ [][ThreadNext]_vars

\* what the invocation of thread t returns when it is the only one running,
\* started with the generator in state s
AloneResult(t, s) ==
    IF th[t].op = "create_galaxy_sample"
    THEN CreateGalaxySample(th[t].args, s).outcome
    ELSE GenerateSimpleKappaMap(th[t].args, FALSE, s).outcome

\* C2 as stated: each of two interleaved invocations with different seeds
\* returns exactly what it returns when run alone with its seed.
C2_InterleavedIndependent ==
    \A t \in Threads :
        Finished(th[t].pc)
            => \A s \in RngStates : th[t].result = AloneResult(t, s)

\* C2 as amended: an invocation returns what it returns when run alone
\* provided no other invocation seeded or drew between its own seed step and
\* its last draw.
C2_IndependentWhenNotOverlapping ==
    \A t \in Threads :
        (Finished(th[t].pc) /\ ~disturbed[t])
            => \A s \in RngStates : th[t].result = AloneResult(t, s)

C2_Witness ==
    /\ \A t \in Threads : th[t].pc = "returned" /\ ~disturbed[t]
    /\ th[1].op = "create_galaxy_sample"
    /\ th[2].op = "create_galaxy_sample"
    /\ th[1].result = AloneResult(1, crng)
    /\ th[2].result = AloneResult(2, crng)

-----------------------------------------------------------------------------
(* data/generate_sample_data.py: the driver *)

DefaultNsides == <<128, 256, 512>>
DefaultZSources == <<500, 1000, 1500, 2000>>

\* grids a caller of generate_kappa_maps passes
NsidesChoices == {DefaultNsides, <<2, 7>>, <<128, 128>>}
ZSourcesChoices == {DefaultZSources, <<1000, 1040>>, <<500, 1460>>}

\* main() calls generate_kappa_maps() with its default grid
Entries ==
    {[fn |-> "main", nsides |-> DefaultNsides, z_sources |-> DefaultZSources]}
    \cup
    [fn : {"generate_kappa_maps"}, nsides : NsidesChoices,
     z_sources : ZSourcesChoices]

LargeArgs ==
    [n |-> DriverGalaxies, redshift_dist |-> "gamma", size_dist |-> "lognormal",
     area_deg2 |-> 100, seed |-> 42]

BaseArgs ==
    [n |-> DriverGalaxies, redshift_dist |-> "exp", size_dist |-> "lognormal",
     area_deg2 |-> 25, seed |-> 123]

BaseColumns ==
    {"ra", "dec", "redshift", "size", "galaxy_type", "apparent_mag",
     "absolute_mag"}

LargeColumns ==
    <<"galaxy_id", "ra", "dec", "redshift", "size", "galaxy_type",
      "apparent_mag", "absolute_mag">>

\* how a file operation (and the prints around it) can end
IoOutcomes == {"ok", "OSError", "KeyboardInterrupt"}

\* the classes `except Exception` handles
IsException(kind) == kind \in {"OSError", "ValueError"}

NoExc == [kind |-> "none"]

NoHeap == [objs |-> <<>>, base |-> 0, spec |-> 0, photo |-> 0]

\* f'{z_source:.1f}': one decimal, nearest (no z_source of the model is a tie)
Format1f(z) ==
    LET tenths == (z + 50) \div 100
    IN  ToString(tenths \div 10) \o "." \o ToString(tenths % 10)

MapFileNameNoNside(nside, z_source) ==
    "kappa_map_z" \o Format1f(z_source) \o ".fits"

MapFileName(nside, z_source) ==
    "kappa_map_nside" \o ToString(nside) \o "_z" \o Format1f(z_source)
        \o ".fits"

\* the (nside, z_source) pair of the k-th iteration of the nested loops
GridPair(e, k) ==
    [nside |-> e.nsides[((k - 1) \div Len(e.z_sources)) + 1],
     z_source |-> e.z_sources[((k - 1) % Len(e.z_sources)) + 1]]

GridSize(e) == Len(e.nsides) * Len(e.z_sources)

\* dict.copy(): a new dictionary holding the same columns
DictAlias(objs, id) == [objs |-> objs, id |-> id]

DictCopy(objs, id) == [objs |-> Append(objs, objs[id]), id |-> Len(objs) + 1]

\* d[key] = column
SetItem(objs, id, key, column) ==
    [objs EXCEPT ![id] = (key :> column) @@ objs[id]]

Max(x, y) == IF x >= y THEN x ELSE y

CaughtAlways(e) == TRUE

\* whether main's try/except Exception handles the exception e
Caught(e) == e.where # "makedirs" /\ IsException(e.kind)

DriverInit ==
    /\ entry \in Entries
    /\ pc = IF entry.fn = "main" THEN "makedirs" ELSE "kappa"
    /\ drng \in RngStates
    /\ files = <<>>
    /\ writes = <<>>
    /\ steps = <<>>
    /\ exc = NoExc
    /\ status = "none"
    /\ loopIdx = 0
    /\ heap = NoHeap
    /\ printed = FALSE
    /\ rng = 0
    /\ last = NoCall
    /\ ref = NoCall
    /\ crng = 0
    /\ th = <<>>
    /\ disturbed = <<>>

\* the file is written (replacing a file of that name)
Write(name, content) ==
    /\ files' = (name :> content) @@ files
    /\ writes' = Append(writes, [name |-> name, content |-> content])

\* the running step ends by raising
Raise(kind, where) ==
    /\ exc' = [kind |-> kind, where |-> where]
    /\ pc' = "raising"
    /\ steps' = IF steps = <<>> THEN steps
                ELSE [steps EXCEPT ![Len(steps)].state =
                        IF @ = "running" THEN "raised" ELSE @]

Begin(name) == Append(steps, [name |-> name, state |-> "running"])

Complete == [steps EXCEPT ![Len(steps)].state = "completed"]

\* os.makedirs(..., exist_ok=True), before the try block
Makedirs ==
    /\ pc = "makedirs"
    /\ \E io \in IoOutcomes :
          IF io = "ok"
          THEN pc' = "large" /\ UNCHANGED <<exc, steps>>
          ELSE Raise(io, "makedirs")
    /\ UNCHANGED <<entry, drng, files, writes, status, loopIdx, heap, printed,
                   seqVars, concVars>>

\* generate_large_galaxy_catalogue()
GenerateLargeGalaxyCatalogue ==
    /\ pc = "large"
    /\ LET res == CreateGalaxySample(LargeArgs, drng)
           cat == res.outcome.catalogue
           df  == [columns |-> LargeColumns,
                   data |-> ("galaxy_id" :> [i \in 1 .. LargeArgs.n |-> i - 1])
                            @@ cat]
       IN  /\ drng' = res.rng
           /\ \E io \in IoOutcomes :
                 IF io = "ok"
                 THEN /\ Write("large_galaxy_catalogue.csv",
                               [kind |-> "csv", df |-> df])
                      /\ steps' = Append(steps, [name |-> "large",
                                                 state |-> "completed"])
                      /\ pc' = "kappa"
                      /\ UNCHANGED exc
                 ELSE /\ exc' = [kind |-> io, where |-> "large"]
                      /\ steps' = Append(steps, [name |-> "large",
                                                 state |-> "raised"])
                      /\ pc' = "raising"
                      /\ UNCHANGED <<files, writes>>
    /\ UNCHANGED <<entry, status, loopIdx, heap, printed, seqVars, concVars>>

\* generate_kappa_maps(): entry, before the loops
KappaStart ==
    /\ pc = "kappa"
    /\ steps' = Begin("kappa")
    /\ loopIdx' = 1
    /\ pc' = "kappa_loop"
    /\ UNCHANGED <<entry, drng, files, writes, exc, status, heap, printed,
                   seqVars, concVars>>

\* one iteration: generate_simple_kappa_map, then hp.write_map
KappaIteration ==
    /\ pc = "kappa_loop"
    /\ loopIdx <= GridSize(entry)
    /\ \E rejects \in BOOLEAN, io \in IoOutcomes :
          LET p   == GridPair(entry, loopIdx)
              a   == [nside |-> p.nside, z_source |-> p.z_source, seed |-> 42]
              res == GenerateSimpleKappaMap(a, rejects, drng)
          IN  /\ drng' = res.rng
              /\ IF res.outcome.kind # "ok"
                 THEN /\ Raise(res.outcome.kind, "kappa")
                      /\ UNCHANGED <<files, writes, loopIdx>>
                 ELSE IF io # "ok"
                 THEN /\ Raise(io, "kappa")
                      /\ UNCHANGED <<files, writes, loopIdx>>
                 ELSE /\ Write(MapFileName(p.nside, p.z_source),
                               [kind |-> "fits", map |-> res.outcome.map])
                      /\ loopIdx' = loopIdx + 1
                      /\ UNCHANGED <<pc, exc, steps>>
    /\ UNCHANGED <<entry, status, heap, printed, seqVars, concVars>>

\* the loops are exhausted: generate_kappa_maps returns
KappaReturn ==
    /\ pc = "kappa_loop"
    /\ loopIdx > GridSize(entry)
    /\ steps' = Complete
    /\ pc' = IF entry.fn = "main" THEN "redshift" ELSE "finished"
    /\ UNCHANGED <<entry, drng, files, writes, exc, status, loopIdx, heap,
                   printed, seqVars, concVars>>

\* generate_redshift_catalogues(): base_cat = create_galaxy_sample(...)
RC_Base ==
    /\ pc = "redshift"
    /\ LET res == CreateGalaxySample(BaseArgs, drng)
       IN  /\ drng' = res.rng
           /\ heap' = [NoHeap EXCEPT !.objs = <<res.outcome.catalogue>>,
                                     !.base = 1]
    /\ steps' = Begin("redshift")
    /\ pc' = "redshift_spec"
    /\ UNCHANGED <<entry, files, writes, exc, status, loopIdx, printed,
                   seqVars, concVars>>

\* spec_cat = base_cat.copy() and its two added columns
RC_Spec ==
    /\ pc = "redshift_spec"
    /\ LET c  == DictCopy(heap.objs, heap.base)
           z  == c.objs[c.id]["redshift"]
           o1 == SetItem(c.objs, c.id, "z_spec", z)
           o2 == SetItem(o1, c.id, "z_spec_error", [i \in DOMAIN z |-> 1])
       IN  heap' = [heap EXCEPT !.objs = o2, !.spec = c.id]
    /\ pc' = "redshift_photo"
    /\ UNCHANGED <<entry, drng, files, writes, steps, exc, status, loopIdx,
                   printed, seqVars, concVars>>

\* photo_cat = base_cat.copy(), the unseeded noise draw, the three columns
RC_Photo ==
    /\ pc = "redshift_photo"
    /\ LET c       == DictCopy(heap.objs, heap.base)
           z_true  == c.objs[c.id]["redshift"]
           err     == [i \in DOMAIN z_true |->
                          (50 * (1000 + z_true[i])) \div 1000]
           noise   == [i \in DOMAIN z_true |->
                          NormalDraw(0, err[i], NthState(drng, i - 1))]
           z_photo == [i \in DOMAIN z_true |->
                          Max(z_true[i] + noise[i], 10)]
           o1      == SetItem(c.objs, c.id, "z_photo", z_photo)
           o2      == SetItem(o1, c.id, "z_photo_error", err)
           o3      == SetItem(o2, c.id, "z_true", z_true)
       IN  /\ heap' = [heap EXCEPT !.objs = o3, !.photo = c.id]
           /\ drng' = AdvanceN(drng, Len(z_true))
    /\ pc' = "write_spec"
    /\ UNCHANGED <<entry, files, writes, steps, exc, status, loopIdx, printed,
                   seqVars, concVars>>

\* pd.DataFrame(spec_cat).to_csv('spectroscopic_catalogue.csv')
RC_WriteSpec ==
    /\ pc = "write_spec"
    /\ \E io \in IoOutcomes :
          IF io = "ok"
          THEN /\ Write("spectroscopic_catalogue.csv",
                        [kind |-> "csv", df |-> heap.objs[heap.spec]])
               /\ pc' = "write_photo"
               /\ UNCHANGED <<exc, steps>>
          ELSE Raise(io, "redshift") /\ UNCHANGED <<files, writes>>
    /\ UNCHANGED <<entry, drng, status, loopIdx, heap, printed, seqVars,
                   concVars>>

\* pd.DataFrame(photo_cat).to_csv('photometric_catalogue.csv'), then return
RC_WritePhoto ==
    /\ pc = "write_photo"
    /\ \E io \in IoOutcomes :
          IF io = "ok"
          THEN /\ Write("photometric_catalogue.csv",
                        [kind |-> "csv", df |-> heap.objs[heap.photo]])
               /\ pc' = "listing"
               /\ steps' = Complete
               /\ UNCHANGED exc
          ELSE Raise(io, "redshift") /\ UNCHANGED <<files, writes>>
    /\ UNCHANGED <<entry, drng, status, loopIdx, heap, printed, seqVars,
                   concVars>>

\* the success message and the listing of the data directory (still inside
\* the try block), then `return 0`
Listing ==
    /\ pc = "listing"
    /\ \E io \in IoOutcomes :
          IF io = "ok"
          THEN /\ pc' = "returned"
               /\ status' = 0
               /\ UNCHANGED <<exc, steps>>
          ELSE Raise(io, "listing") /\ UNCHANGED status
    /\ UNCHANGED <<entry, drng, files, writes, loopIdx, heap, printed,
                   seqVars, concVars>>

\* except Exception as e: print, return 1
MainExcept ==
    /\ pc = "raising"
    /\ entry.fn = "main"
    /\ Caught(exc)
    /\ printed' = TRUE
    /\ status' = 1
    /\ pc' = "returned"
    /\ UNCHANGED <<entry, drng, files, writes, steps, exc, loopIdx, heap,
                   seqVars, concVars>>

\* nothing handles the exception: it leaves the entry point
Propagate ==
    /\ pc = "raising"
    /\ ~(entry.fn = "main" /\ Caught(exc))
    /\ pc' = "propagated"
    /\ UNCHANGED <<entry, drng, files, writes, steps, exc, status, loopIdx,
                   heap, printed, seqVars, concVars>>

DriverNext ==
    \/ Makedirs
    \/ GenerateLargeGalaxyCatalogue
    \/ KappaStart
    \/ KappaIteration
    \/ KappaReturn
    \/ RC_Base
    \/ RC_Spec
    \/ RC_Photo
    \/ RC_WriteSpec
    \/ RC_WritePhoto
    \/ Listing
    \/ MainExcept
    \/ Propagate

SpecDriver == DriverInit /\ [][DriverNext]_vars

-----------------------------------------------------------------------------
(* Properties of the driver *)

MainOrder == <<"large", "kappa", "redshift">>

StepNames == [i \in 1 .. Len(steps) |-> steps[i].name]

IsPrefix(s, t) == Len(s) <= Len(t) /\ \A i \in 1 .. Len(s) : s[i] = t[i]

AllCompleted ==
    Len(steps) = 3 /\ \A i \in 1 .. Len(steps) : steps[i].state = "completed"

SomeRaised == \E i \in 1 .. Len(steps) : steps[i].state = "raised"

\* the steps run in order, each at most once, none after one that raised
OrderNoRetry ==
    /\ IsPrefix(StepNames, MainOrder)
    /\ \A i \in 1 .. Len(steps) :
          steps[i].state # "completed" => i = Len(steps)

\* every file written so far is still there with the content written
FilesIntact ==
    \A i \in 1 .. Len(writes) :
        /\ writes[i].name \in DOMAIN files
        /\ files[writes[i].name] = writes[i].content

\* C8 as stated: the three steps run in order; a step that raises makes main
\* log and return non-zero, nothing runs after it, nothing is retried, written
\* files stay; main returns 0 iff all three steps completed.
C8_MainAsStated ==
    entry.fn = "main" =>
        /\ OrderNoRetry
        /\ FilesIntact
        /\ (SomeRaised /\ pc # "raising")
              => (pc = "returned" /\ printed /\ status = 1)
        /\ pc = "returned" => (status = 0 <=> AllCompleted)

\* C8 as amended: as stated for a step that raises an error derived from
\* Exception; an error of another class (KeyboardInterrupt) or one raised by
\* the initial makedirs leaves main uncaught, with no status and no message;
\* main returns 0 iff the three steps and the listing after them completed.
C8_MainAmended ==
    entry.fn = "main" =>
        /\ OrderNoRetry
        /\ FilesIntact
        /\ (SomeRaised /\ pc # "raising" /\ IsException(exc.kind))
              => (pc = "returned" /\ printed /\ status = 1)
        /\ (pc # "raising" /\ exc # NoExc
              /\ (exc.kind = "KeyboardInterrupt" \/ exc.where = "makedirs"))
              => (pc = "propagated" /\ status = "none" /\ ~printed)
        /\ pc = "returned" => (status = 0 <=> (AllCompleted /\ exc = NoExc))
        /\ pc = "returned" => status \in {0, 1}

C8_Witness ==
    /\ entry.fn = "main"
    /\ pc = "returned" /\ status = 1 /\ printed
    /\ Len(steps) = 2
    /\ steps[1].state = "completed" /\ steps[2].state = "raised"
    /\ Len(writes) = 3
    /\ DOMAIN files =
          {"large_galaxy_catalogue.csv", "kappa_map_nside128_z0.5.fits",
           "kappa_map_nside128_z1.0.fits"}

KappaCompleted ==
    \E i \in 1 .. Len(steps) :
        steps[i].name = "kappa" /\ steps[i].state = "completed"

MapFiles == {f \in DOMAIN files : files[f].kind = "fits"}

MapWrites == {i \in 1 .. Len(writes) : writes[i].content.kind = "fits"}

\* no map file was written twice
NoOverwrite ==
    \A i, j \in MapWrites : i # j => writes[i].name # writes[j].name

\* distinct pairs of the grid have distinct file names
DistinctNames(e) ==
    \A k, l \in 1 .. GridSize(e) :
        GridPair(e, k) # GridPair(e, l)
            => MapFileName(GridPair(e, k).nside, GridPair(e, k).z_source)
                 # MapFileName(GridPair(e, l).nside, GridPair(e, l).z_source)

OneFilePerPair(e) ==
    /\ DistinctNames(e)
    /\ NoOverwrite
    /\ KappaCompleted => Cardinality(MapFiles) = GridSize(e)

\* no nside is listed twice, and no two z_source values agree to one decimal
GridSeparated(e) ==
    /\ \A i, j \in 1 .. Len(e.nsides) : i # j => e.nsides[i] # e.nsides[j]
    /\ \A i, j \in 1 .. Len(e.z_sources) :
          i # j => (e.z_sources[i] + 50) \div 100
                     # (e.z_sources[j] + 50) \div 100

\* C9 as stated: distinct pairs of the grid have distinct file names, no map
\* is overwritten, and the run leaves |nsides| * |z_sources| map files.
C9_OneFilePerPair == OneFilePerPair(entry)

\* C9 as amended: the same, for a grid that lists no nside twice and whose
\* z_source values differ after rounding to one decimal (the default grid).
C9_OneFilePerSeparatedPair == GridSeparated(entry) => OneFilePerPair(entry)

C9_Witness ==
    /\ entry.fn = "main"
    /\ KappaCompleted
    /\ Cardinality(MapFiles) = 12
    /\ "kappa_map_nside512_z2.0.fits" \in MapFiles

SpecFile == "spectroscopic_catalogue.csv"
PhotoFile == "photometric_catalogue.csv"

BaseCat == heap.objs[heap.base]
SpecCat == heap.objs[heap.spec]
PhotoCat == heap.objs[heap.photo]

\* C10: the base catalogue keeps its seven columns and their values; the
\* spectroscopic variant is the base plus z_spec (= redshift) and
\* z_spec_error (0.001); the photometric variant is the base plus z_photo
\* (>= 0.01), z_photo_error (0.05 * (1 + redshift)) and z_true (= redshift);
\* neither variant holds the other's columns; each is written to its own file.
C10_VariantsFromSharedBase ==
    /\ heap.base # 0 =>
          /\ DOMAIN BaseCat = BaseColumns
          /\ \A c \in BaseColumns :
                BaseCat[c] = CreateGalaxySample(BaseArgs, 0).outcome.catalogue[c]
    /\ heap.spec # 0 =>
          /\ DOMAIN SpecCat = BaseColumns \cup {"z_spec", "z_spec_error"}
          /\ \A c \in BaseColumns : SpecCat[c] = BaseCat[c]
          /\ SpecCat["z_spec"] = BaseCat["redshift"]
          /\ SpecCat["z_spec_error"] = [i \in 1 .. BaseArgs.n |-> 1]
    /\ heap.photo # 0 =>
          /\ DOMAIN PhotoCat
               = BaseColumns \cup {"z_photo", "z_photo_error", "z_true"}
          /\ \A c \in BaseColumns : PhotoCat[c] = BaseCat[c]
          /\ PhotoCat["z_true"] = BaseCat["redshift"]
          /\ \A i \in 1 .. BaseArgs.n :
                /\ PhotoCat["z_photo_error"][i]
                     = (50 * (1000 + BaseCat["redshift"][i])) \div 1000
                /\ PhotoCat["z_photo"][i] >= 10
    /\ SpecFile \in DOMAIN files => files[SpecFile].df = SpecCat
    /\ PhotoFile \in DOMAIN files =>
          /\ files[PhotoFile].df = PhotoCat
          /\ files[SpecFile].df = SpecCat
          /\ SpecFile # PhotoFile

C10_Witness ==
    /\ pc = "listing"
    /\ {SpecFile, PhotoFile} \subseteq DOMAIN files
    /\ \E i, j \in 1 .. BaseArgs.n :
          /\ files[PhotoFile].df["z_photo"][i] > files[PhotoFile].df["z_true"][i]
          /\ files[PhotoFile].df["z_true"][j] = Z_MIN
          /\ files[PhotoFile].df["z_photo"][j] = 10
    /\ files[SpecFile].df["z_spec"] = files[PhotoFile].df["z_true"]

=============================================================================
